---- MODULE Spec2Model ----
(***************************************************************************)
(* A model of the link shortener of auth-service: link creation, the      *)
(* cache-aside redirect resolver, archival, the click read and the        *)
(* click-update worker, over a Link Store (Prisma table Link) and a cache  *)
(* (Redis).  Every await on the store or the cache is one step of a       *)
(* request, together with the code that runs up to the next await; a      *)
(* request enters with its first such call, the code before it reading    *)
(* nothing shared.  A field of the request that the code reads only later  *)
(* (url and expiresAt of a creation, the user agent of a resolve) is drawn *)
(* at the step that first reads it.                                        *)
(*                                                                         *)
(* Keys are sequences of Unicode code points.  Times are epoch            *)
(* milliseconds; the clock advances 500 ms at a time.  JavaScript values   *)
(* are records [t, v] (type tag, payload); a link object is a function     *)
(* from field names to such values, a field it lacks reading undefined.    *)
(* Left out of a stored link: id, userId, createdAt, updatedAt, which no   *)
(* modelled operation reads.                                               *)
(***************************************************************************)
EXTENDS Integers, Sequences, FiniteSets, TLC

VARIABLES
    store,       \* Link table: key -> link object, for the keys that have a row
    cache,       \* Redis: key -> [val, exat], for the keys that have an entry
    now,         \* the clock, epoch milliseconds
    req,         \* the requests in flight, one per slot
    resp,        \* the response sent by the step just taken, if any
    workers,     \* worker threads not yet finished: workerData -> how many
    dispatched,  \* history: per key, click-update workers started
    failed,      \* history: per key, click-update workers that reported an error
    keyRun       \* processKey under test: the raw key, then each result

vars == <<store, cache, now, req, resp, workers, dispatched, failed, keyRun>>

----------------------------------------------------------------------------
(* Bounds *)

MaxInFlight == 2     \* request slots: requests being handled at the same time
MaxTicks == 3        \* the clock stops after this many 500 ms ticks
MaxRedirects == 2    \* human redirects (so worker dispatches) started per key
MaxLinks == 1        \* distinct keys that may get a row in the store
MaxKeyLen == 3       \* length of the raw keys processKey is tried on

----------------------------------------------------------------------------
(* HTTP statuses, as http-status names them *)

BAD_REQUEST == 400
NOT_FOUND == 404
CONFLICT == 409
GONE == 410
CREATED == 201
OK == 200
FOUND == 302
INTERNAL_SERVER_ERROR == 500

----------------------------------------------------------------------------
(* JavaScript values *)

Undefined == [t |-> "undefined", v |-> 0]
Null == [t |-> "null", v |-> 0]
NaN == [t |-> "NaN", v |-> 0]
Num(n) == [t |-> "number", v |-> n]
Bool(b) == [t |-> "boolean", v |-> b]
Str(s) == [t |-> "string", v |-> s]
KeyStr(k) == [t |-> "key", v |-> k]
Date(ms) == [t |-> "Date", v |-> ms]
IsoString(ms) == [t |-> "isostring", v |-> ms]

Truthy(x) ==
    CASE x.t \in {"undefined", "null", "NaN"} -> FALSE
      [] x.t = "number" -> x.v # 0
      [] x.t = "boolean" -> x.v
      [] x.t = "string" -> x.v # ""
      [] x.t = "key" -> x.v # <<>>
      [] OTHER -> TRUE

\* a || b
OrElse(a, b) == IF Truthy(a) THEN a ELSE b

\* obj.f
Field(obj, f) == IF f \in DOMAIN obj THEN obj[f] ELSE Undefined

\* new Date(x) of a Date or of the ISO string JSON made of one: the same instant
NewDate(x) == Date(x.v)

\* x + 1
PlusOne(x) == IF x.t = "number" THEN Num(x.v + 1) ELSE NaN

\* JSON.stringify(obj): undefined fields are dropped, a Date becomes its ISO string
JSONstringify(obj) ==
    [f \in {g \in DOMAIN obj : obj[g].t # "undefined"} |->
        IF obj[f].t = "Date" THEN IsoString(obj[f].v) ELSE obj[f]]

\* JSON.parse(text): the object the text denotes; an ISO string stays a string
JSONparse(text) == [f \in DOMAIN text |-> text[f]]

----------------------------------------------------------------------------
(* Key Validator *)

Slash == 47
Dash == 45

\* the character class of validKeyRegex, 0-9, A-Z, a-z, U+0080 to U+FFFF, '/' and '-', by code point
ValidKeyChar(c) ==
    \/ c \in 48..57
    \/ c \in 65..90
    \/ c \in 97..122
    \/ c \in 128..65535
    \/ c = Slash
    \/ c = Dash

RECURSIVE StripLeading(_)
StripLeading(k) ==
    IF k # <<>> /\ Head(k) = Slash THEN StripLeading(Tail(k)) ELSE k

RECURSIVE StripTrailing(_)
StripTrailing(k) ==
    IF k # <<>> /\ k[Len(k)] = Slash
    THEN StripTrailing(SubSeq(k, 1, Len(k) - 1))
    ELSE k

\* mutant: only the leading slashes are removed
StripLeadingOnly(k) == StripLeading(k)

\* key.replace(/^\/+|\/+$/g, '')
StripSlashes(k) == StripTrailing(StripLeading(k))

InvalidKey == [ok |-> FALSE, key |-> <<>>]

processKey(key) ==
    IF ~ (\A i \in 1..Len(key) : ValidKeyChar(key[i]))
    THEN InvalidKey
    ELSE IF Len(StripSlashes(key)) = 0
         THEN InvalidKey
         ELSE [ok |-> TRUE, key |-> StripSlashes(key)]

----------------------------------------------------------------------------
(* Inputs *)

KeyA == <<97>>
KeySlashA == <<47, 97>>
KeyBlog == <<98, 108, 111, 103>>
KeyBang == <<33>>

reservedKeys ==
    { KeyBlog,
      <<112, 114, 105, 99, 105, 110, 103>>,
      <<112, 114, 105, 118, 97, 99, 121>> }

\* the keys requests carry: a plain one, one with a leading slash, a reserved
\* one, and one with a character outside the allowed class
RawKeys == {KeyA, KeySlashA, KeyBlog, KeyBang}

\* the keys the routes with a :key parameter are requested with: those a
\* creation can have stored and a path segment can carry (it holds no '/')
RouteKeys ==
    {k \in RawKeys : /\ processKey(k).ok
                     /\ k \notin reservedKeys
                     /\ \A i \in 1..Len(k) : k[i] # Slash}

\* the route validates url as a required URI
Urls == {"https://example.com", "https://example.org"}

\* expiresAt of a creation body: absent, or a date string of one of these instants
ExpiryInputs ==
    {Undefined} \cup {IsoString(500 * i) : i \in 0..(MaxTicks - 1)}

\* what unfurl finds at a url: Open Graph data at the first, none at the second
getMetadata(url) ==
    IF url = "https://example.com"
    THEN [title |-> Str("Example"), description |-> Str("An example"),
          image |-> Str("https://example.com/og.png")]
    ELSE [title |-> Undefined, description |-> Undefined, image |-> Undefined]

truncate(str, length) ==
    IF ~ Truthy(str) \/ Len(str.v) <= length
    THEN str
    ELSE Str(SubSeq(str.v, 1, length - 3) \o "...")

----------------------------------------------------------------------------
(* Link Store and cache *)

\* the row prismaClient.link.create makes; archived and clicks take the
\* column defaults
NewLink(url, key, expiresAt, meta) ==
    [ key |-> KeyStr(key),
      url |-> Str(url),
      expiresAt |-> IF Truthy(expiresAt) THEN NewDate(expiresAt) ELSE Null,
      title |-> OrElse(truncate(meta.title, 120), Null),
      description |->
          OrElse(truncate(OrElse(meta.description, Str("")), 240), Null),
      image |-> OrElse(meta.image, Null),
      archived |-> Bool(FALSE),
      clicks |-> Num(0) ]

\* mutant: the cached object without the url
CreatedEntryNoUrl(url, meta) ==
    [ title |-> OrElse(truncate(meta.title, 120), Null),
      description |->
          OrElse(truncate(OrElse(meta.description, Str("")), 240), Null),
      image |-> OrElse(meta.image, Null) ]

\* the object link creation caches
CreatedEntry(url, meta) ==
    [ url |-> Str(url),
      title |-> OrElse(truncate(meta.title, 120), Null),
      description |->
          OrElse(truncate(OrElse(meta.description, Str("")), 240), Null),
      image |-> OrElse(meta.image, Null) ]

\* exat of link creation: epoch seconds, or null
Exat(expiresAt) ==
    IF Truthy(expiresAt) THEN [whole |-> expiresAt.v % 1000 = 0,
                               sec |-> expiresAt.v \div 1000,
                               isNull |-> FALSE]
    ELSE [whole |-> TRUE, sec |-> 0, isNull |-> TRUE]

\* exat && {EXAT: exat}: null and 0 add no option
ExatOption(exat) ==
    IF exat.isNull \/ (exat.whole /\ exat.sec = 0) THEN {} ELSE {exat.sec}

\* Redis no longer serves an entry once the clock has passed its expiry
Expired(entry) == \E s \in entry.exat : now > s * 1000

CacheHas(k) == k \in DOMAIN cache /\ ~ Expired(cache[k])

Put(f, k, x) == [j \in DOMAIN f \cup {k} |-> IF j = k THEN x ELSE f[j]]

Drop(f, k) == [j \in DOMAIN f \ {k} |-> f[j]]

\* mutant: the write-back made create-only, as link creation's write is
CacheSetIfAbsent(k, text) ==
    IF CacheHas(k) THEN cache ELSE Put(cache, k, [val |-> text, exat |-> {}])

\* redisClient.set(key, value) with no options: the entry is replaced, with no expiry
CacheSet(k, text) == Put(cache, k, [val |-> text, exat |-> {}])

\* redisClient.set(key, value, {NX: true, EXAT?}): written only if the key is absent
CacheSetNX(k, text, exatOption) ==
    IF CacheHas(k) THEN cache ELSE Put(cache, k, [val |-> text, exat |-> exatOption])

\* mutant: the archival that leaves the cache entry in place
CacheDelNothing(k) == cache

\* redisClient.del(key)
CacheDel(k) == Drop(cache, k)

----------------------------------------------------------------------------
(* Requests *)

Slots == 1..MaxInFlight

NoLink == [f \in {} |-> Undefined]

Idle ==
    [ op |-> "idle", pc |-> "idle", key |-> <<>>, url |-> "",
      expiresAt |-> Undefined, bot |-> FALSE, link |-> NoLink,
      \* history, for the properties: the key's row as the request entered
      rowAtStart |-> FALSE, archivedAtStart |-> FALSE, expiredAtStart |-> FALSE ]

\* no response in this step
NoResponse ==
    [ op |-> "none", key |-> <<>>, status |-> 0, body |-> <<>>, bot |-> FALSE,
      rowAtStart |-> FALSE, archivedAtStart |-> FALSE, expiredAtStart |-> FALSE ]

Response(r, status, body) ==
    [ op |-> r.op, key |-> r.key, status |-> status, body |-> body, bot |-> r.bot,
      rowAtStart |-> r.rowAtStart, archivedAtStart |-> r.archivedAtStart,
      expiredAtStart |-> r.expiredAtStart ]

RowExpired(k) ==
    /\ k \in DOMAIN store
    /\ Truthy(store[k].expiresAt)
    /\ store[k].expiresAt.v < now

\* the history is kept for resolves, the only requests the properties ask it of
Enter(op, k) ==
    IF op = "resolve"
    THEN [Idle EXCEPT !.op = op, !.key = k,
                      !.rowAtStart = k \in DOMAIN store,
                      !.archivedAtStart = k \in DOMAIN store /\ store[k].archived.v,
                      !.expiredAtStart = RowExpired(k)]
    ELSE [Idle EXCEPT !.op = op, !.key = k]

\* a request takes the first free slot
Free(p) == req[p].op = "idle" /\ \A q \in Slots : q < p => req[q].op # "idle"

\* the request of slot p goes on to pc
Goto(p, r, pc) ==
    /\ req' = [req EXCEPT ![p] = [r EXCEPT !.pc = pc]]
    /\ resp' = NoResponse

\* the request of slot p answers and leaves
Reply(p, r, status, body) ==
    /\ req' = [req EXCEPT ![p] = Idle]
    /\ resp' = Response(r, status, body)

\* keys that have a row or a creation under way
LinkKeys == DOMAIN store \cup {req[p].key : p \in {q \in Slots : req[q].op = "create"}}

----------------------------------------------------------------------------
(* handleCreateLink *)

\* mutant: no reserved keys
checkReservedNone(key) == FALSE

\* the keys checkIfKeyExists takes as existing whatever the store holds
checkReserved(key) == key \in reservedKeys

\* the checks on the body, then checkIfKeyExists: prismaClient.link.findUnique
CreateExists(p, key) ==
    /\ Free(p)
    /\ \/ Cardinality(LinkKeys \cup {key}) <= MaxLinks
       \/ ~ processKey(key).ok
       \/ checkReserved(key)
    /\ LET r == Enter("create", key)
       IN  IF key = <<>>
           THEN Reply(p, r, BAD_REQUEST, <<"Link and Key are required!">>)
           ELSE IF ~ processKey(key).ok
           THEN Reply(p, r, BAD_REQUEST, <<"Invalid Key!">>)
           ELSE IF checkReserved(key) \/ key \in DOMAIN store
           THEN Reply(p, r, CONFLICT, <<"Key already exists!">>)
           ELSE Goto(p, r, "metadata")
    /\ UNCHANGED <<store, cache, now, workers, dispatched, failed, keyRun>>

\* getMetadata(url)
CreateMetadata(p) ==
    /\ req[p].op = "create" /\ req[p].pc = "metadata"
    /\ Goto(p, req[p], "create")
    /\ UNCHANGED <<store, cache, now, workers, dispatched, failed, keyRun>>

\* prismaClient.link.create; the unique index on key rejects a second row
CreateRow(p, url, expiresAt) ==
    /\ req[p].op = "create" /\ req[p].pc = "create"
    /\ IF req[p].key \in DOMAIN store
       THEN /\ Reply(p, req[p], INTERNAL_SERVER_ERROR, <<>>)
            /\ UNCHANGED store
       ELSE /\ store' = Put(store, req[p].key,
                            NewLink(url, req[p].key, expiresAt, getMetadata(url)))
            /\ Goto(p, [req[p] EXCEPT !.url = url, !.expiresAt = expiresAt], "cache")
    /\ UNCHANGED <<cache, now, workers, dispatched, failed, keyRun>>

\* redisClient.set(..., {NX, EXAT}); Redis rejects an EXAT that is not an integer
CreateCache(p) ==
    /\ req[p].op = "create" /\ req[p].pc = "cache"
    /\ LET exat == Exat(req[p].expiresAt)
       IN  IF ~ exat.whole
           THEN /\ Reply(p, req[p], INTERNAL_SERVER_ERROR, <<>>)
                /\ UNCHANGED cache
           ELSE /\ cache' = CacheSetNX(req[p].key,
                               JSONstringify(CreatedEntry(req[p].url,
                                                          getMetadata(req[p].url))),
                               ExatOption(exat))
                /\ Reply(p, req[p], CREATED, <<"Link created!">>)
    /\ UNCHANGED <<store, now, workers, dispatched, failed, keyRun>>

----------------------------------------------------------------------------
(* handleGetLink *)

\* String(x) inside the template literal
TemplateString(x) == IF x.t = "string" THEN x.v ELSE x.t

\* a parameter default applies to undefined only
Default(x, d) == IF x.t = "undefined" THEN Str(d) ELSE x

\* the contents of og:title, og:description and og:image
generateLinkPreview(title, description, image) ==
    << TemplateString(Default(title, "Link Preview")),
       TemplateString(Default(description, "Link Description")),
       TemplateString(Default(image, "#")) >>

AddWorker(workerData) ==
    Put(workers, workerData,
        IF workerData \in DOMAIN workers THEN workers[workerData] + 1 ELSE 1)

RemoveWorker(workerData) ==
    IF workers[workerData] = 1
    THEN Drop(workers, workerData)
    ELSE [workers EXCEPT ![workerData] = @ - 1]

\* the check of the key, redisClient.get(key), and JSON.parse of a hit
ResolveGet(p, key) ==
    /\ Free(p)
    /\ LET r == Enter("resolve", key)
       IN  IF key = <<>>
           THEN Reply(p, r, BAD_REQUEST, <<"Key is required!">>)
           ELSE IF CacheHas(key)
           THEN Goto(p, [r EXCEPT !.link = JSONparse(cache[key].val)], "gate")
           ELSE Goto(p, r, "find")
    /\ UNCHANGED <<store, cache, now, workers, dispatched, failed, keyRun>>

\* prismaClient.link.findUnique after a miss
ResolveFind(p) ==
    /\ req[p].op = "resolve" /\ req[p].pc = "find"
    /\ IF req[p].key \in DOMAIN store
       THEN Goto(p, [req[p] EXCEPT !.link = store[req[p].key]], "set")
       ELSE Reply(p, req[p], NOT_FOUND, <<"Link not found">>)
    /\ UNCHANGED <<store, cache, now, workers, dispatched, failed, keyRun>>

\* redisClient.set(key, JSON.stringify(link))
ResolveSet(p) ==
    /\ req[p].op = "resolve" /\ req[p].pc = "set"
    /\ cache' = CacheSet(req[p].key, JSONstringify(req[p].link))
    /\ Goto(p, req[p], "gate")
    /\ UNCHANGED <<store, now, workers, dispatched, failed, keyRun>>

LinkExpired(link) ==
    /\ Truthy(Field(link, "expiresAt"))
    /\ NewDate(Field(link, "expiresAt")).v < now

LinkArchived(link) == Truthy(Field(link, "archived"))

\* what updateLinkClicks starts the worker with
WorkerData(key, link) == [key |-> key, clicks |-> PlusOne(Field(link, "clicks"))]

\* mutant: the archival check before the expiry check
ResolveGateArchivedFirst(p, bot) ==
    /\ req[p].op = "resolve" /\ req[p].pc = "gate"
    /\ bot \/ dispatched[req[p].key] < MaxRedirects
    /\ LET link == req[p].link
           k == req[p].key
           r == [req[p] EXCEPT !.bot = bot]
       IN  IF LinkArchived(link)
           THEN /\ Reply(p, r, GONE, <<"Link archived">>)
                /\ UNCHANGED <<workers, dispatched>>
           ELSE IF LinkExpired(link)
           THEN /\ Reply(p, r, GONE, <<"Link expired">>)
                /\ UNCHANGED <<workers, dispatched>>
           ELSE IF bot
           THEN /\ Reply(p, r, OK,
                         generateLinkPreview(Field(link, "title"),
                                             Field(link, "description"),
                                             Field(link, "image")))
                /\ UNCHANGED <<workers, dispatched>>
           ELSE /\ workers' = AddWorker(WorkerData(k, link))
                /\ dispatched' = [dispatched EXCEPT ![k] = @ + 1]
                /\ Reply(p, r, FOUND, <<TemplateString(Field(link, "url"))>>)
    /\ UNCHANGED <<store, cache, now, failed, keyRun>>

\* mutant: the click update started before the user agent is looked at, so
\* that a bot's preview counts as a click
ResolveGateCountsBots(p, bot) ==
    /\ req[p].op = "resolve" /\ req[p].pc = "gate"
    /\ dispatched[req[p].key] < MaxRedirects
    /\ LET link == req[p].link
           k == req[p].key
           r == [req[p] EXCEPT !.bot = bot]
       IN  IF LinkExpired(link)
           THEN /\ Reply(p, r, GONE, <<"Link expired">>)
                /\ UNCHANGED <<workers, dispatched>>
           ELSE IF LinkArchived(link)
           THEN /\ Reply(p, r, GONE, <<"Link archived">>)
                /\ UNCHANGED <<workers, dispatched>>
           ELSE /\ workers' = AddWorker(WorkerData(k, link))
                /\ dispatched' = [dispatched EXCEPT ![k] = @ + 1]
                /\ IF bot
                   THEN Reply(p, r, OK,
                              generateLinkPreview(Field(link, "title"),
                                                  Field(link, "description"),
                                                  Field(link, "image")))
                   ELSE Reply(p, r, FOUND, <<TemplateString(Field(link, "url"))>>)
    /\ UNCHANGED <<store, cache, now, failed, keyRun>>

\* the expiry and archival checks, the bot branch, the dispatch and the redirect
ResolveGate(p, bot) ==
    /\ req[p].op = "resolve" /\ req[p].pc = "gate"
    /\ bot \/ dispatched[req[p].key] < MaxRedirects
    /\ LET link == req[p].link
           k == req[p].key
           r == [req[p] EXCEPT !.bot = bot]
       IN  IF LinkExpired(link)
           THEN /\ Reply(p, r, GONE, <<"Link expired">>)
                /\ UNCHANGED <<workers, dispatched>>
           ELSE IF LinkArchived(link)
           THEN /\ Reply(p, r, GONE, <<"Link archived">>)
                /\ UNCHANGED <<workers, dispatched>>
           ELSE IF bot
           THEN /\ Reply(p, r, OK,
                         generateLinkPreview(Field(link, "title"),
                                             Field(link, "description"),
                                             Field(link, "image")))
                /\ UNCHANGED <<workers, dispatched>>
           ELSE /\ workers' = AddWorker(WorkerData(k, link))
                /\ dispatched' = [dispatched EXCEPT ![k] = @ + 1]
                /\ Reply(p, r, FOUND, <<TemplateString(Field(link, "url"))>>)
    /\ UNCHANGED <<store, cache, now, failed, keyRun>>

----------------------------------------------------------------------------
(* handleLinkArchive *)

\* mutant: the archive without the test of link.archived
ArchiveFindNoArchivedTest(p, key) ==
    /\ Free(p)
    /\ LET r == Enter("archive", key)
       IN  IF key = <<>>
           THEN Reply(p, r, BAD_REQUEST, <<"Key is required!">>)
           ELSE IF key \notin DOMAIN store
           THEN Reply(p, r, NOT_FOUND, <<"Link not found">>)
           ELSE Goto(p, r, "del")
    /\ UNCHANGED <<store, cache, now, workers, dispatched, failed, keyRun>>

\* the check of the key, prismaClient.link.findUnique, the checks on its result
ArchiveFind(p, key) ==
    /\ Free(p)
    /\ LET r == Enter("archive", key)
       IN  IF key = <<>>
           THEN Reply(p, r, BAD_REQUEST, <<"Key is required!">>)
           ELSE IF key \notin DOMAIN store
           THEN Reply(p, r, NOT_FOUND, <<"Link not found">>)
           ELSE IF Truthy(store[key].archived)
           THEN Reply(p, r, CONFLICT, <<"Link already archived">>)
           ELSE Goto(p, r, "del")
    /\ UNCHANGED <<store, cache, now, workers, dispatched, failed, keyRun>>

\* redisClient.del(key)
ArchiveDel(p) ==
    /\ req[p].op = "archive" /\ req[p].pc = "del"
    /\ cache' = CacheDel(req[p].key)
    /\ Goto(p, req[p], "update")
    /\ UNCHANGED <<store, now, workers, dispatched, failed, keyRun>>

\* mutant: the update that flips archived instead of setting it
ArchiveUpdateToggle(p) ==
    /\ req[p].op = "archive" /\ req[p].pc = "update"
    /\ store' = [store EXCEPT ![req[p].key].archived = Bool(~ @.v)]
    /\ Reply(p, req[p], OK, <<"Link archived">>)
    /\ UNCHANGED <<cache, now, workers, dispatched, failed, keyRun>>

\* prismaClient.link.update({data: {archived: true}})
ArchiveUpdate(p) ==
    /\ req[p].op = "archive" /\ req[p].pc = "update"
    /\ store' = [store EXCEPT ![req[p].key].archived = Bool(TRUE)]
    /\ Reply(p, req[p], OK, <<"Link archived">>)
    /\ UNCHANGED <<cache, now, workers, dispatched, failed, keyRun>>

----------------------------------------------------------------------------
(* handleLinkClicks *)

\* the whole handler: its one call is prismaClient.link.findUnique
ClicksFind(p, key) ==
    /\ Free(p)
    /\ LET r == Enter("clicks", key)
       IN  IF key = <<>>
           THEN Reply(p, r, BAD_REQUEST, <<"Key is required!">>)
           ELSE IF key \notin DOMAIN store
           THEN Reply(p, r, NOT_FOUND, <<"Link not found">>)
           ELSE Reply(p, r, OK, <<"clicks", store[key].clicks.v>>)
    /\ UNCHANGED <<store, cache, now, workers, dispatched, failed, keyRun>>

----------------------------------------------------------------------------
(* updateLinkClick.worker *)

\* mutant: the count of the request written as it is (a read-modify-write)
AbsoluteClicks(row, workerData) ==
    IF workerData.clicks.t = "number" THEN workerData.clicks ELSE row.clicks

\* data: {clicks: {increment: 1}}: the store adds 1 to the row's own value
IncrementedClicks(row, workerData) == Num(row.clicks.v + 1)

\* the worker's update, then the parent's handler of its 'done' message
WorkerDone(workerData) ==
    /\ workerData \in DOMAIN workers
    /\ workerData.key \in DOMAIN store
    /\ store' = [store EXCEPT ![workerData.key].clicks =
                    IncrementedClicks(store[workerData.key], workerData)]
    /\ workers' = RemoveWorker(workerData)
    /\ resp' = NoResponse
    /\ UNCHANGED <<cache, now, req, dispatched, failed, keyRun>>

\* mutant: the failed update is logged and run again
WorkerErrorRetry(workerData) ==
    /\ workerData \in DOMAIN workers
    /\ failed' = [failed EXCEPT ![workerData.key] = @ + 1]
    /\ resp' = NoResponse
    /\ UNCHANGED <<store, cache, now, req, workers, dispatched, keyRun>>

\* the update rejects; the parent's handler of the 'error' message logs it
WorkerError(workerData) ==
    /\ workerData \in DOMAIN workers
    /\ failed' = [failed EXCEPT ![workerData.key] = @ + 1]
    /\ workers' = RemoveWorker(workerData)
    /\ resp' = NoResponse
    /\ UNCHANGED <<store, cache, now, req, dispatched, keyRun>>

----------------------------------------------------------------------------
(* The environment *)

\* the clock advances
Tick ==
    /\ now < 500 * MaxTicks
    /\ now' = now + 500
    /\ resp' = NoResponse
    /\ UNCHANGED <<store, cache, req, workers, dispatched, failed, keyRun>>

----------------------------------------------------------------------------
(* The specification *)

EmptyMap == [k \in {} |-> NoLink]

NoKeyRun == [raw |-> <<>>, out |-> <<>>]

Init ==
    /\ store = EmptyMap
    /\ cache = EmptyMap
    /\ now = 500
    /\ req = [p \in Slots |-> Idle]
    /\ resp = NoResponse
    /\ workers = EmptyMap
    /\ dispatched = [k \in RawKeys |-> 0]
    /\ failed = [k \in RawKeys |-> 0]
    /\ keyRun = NoKeyRun

Next ==
    \/ \E p \in Slots, key \in RawKeys : CreateExists(p, key)
    \/ \E p \in Slots : CreateMetadata(p)
    \/ \E p \in Slots, url \in Urls, expiresAt \in ExpiryInputs :
           CreateRow(p, url, expiresAt)
    \/ \E p \in Slots : CreateCache(p)
    \/ \E p \in Slots, key \in RouteKeys : ResolveGet(p, key)
    \/ \E p \in Slots : ResolveFind(p)
    \/ \E p \in Slots : ResolveSet(p)
    \/ \E p \in Slots, bot \in BOOLEAN : ResolveGate(p, bot)
    \/ \E p \in Slots, key \in RouteKeys : ArchiveFind(p, key)
    \/ \E p \in Slots : ArchiveDel(p)
    \/ \E p \in Slots : ArchiveUpdate(p)
    \/ \E p \in Slots, key \in RouteKeys : ClicksFind(p, key)
    \/ \E workerData \in DOMAIN workers : WorkerDone(workerData)
    \/ \E workerData \in DOMAIN workers : WorkerError(workerData)
    \/ Tick

Spec == Init /\ [][Next]_vars

----------------------------------------------------------------------------
(* The cache failing: a call to Redis rejects.  handleGetLink awaits its   *)
(* two cache calls outside any try, so the handler rejects with them and   *)
(* the request ends without one of the resolver's outcomes.                *)

\* redisClient.get(key) rejects
ResolveGetError(p, key) ==
    /\ Free(p)
    /\ key # <<>>
    /\ Reply(p, Enter("resolve", key), INTERNAL_SERVER_ERROR, <<>>)
    /\ UNCHANGED <<store, cache, now, workers, dispatched, failed, keyRun>>

\* redisClient.set(key, JSON.stringify(link)) rejects
ResolveSetError(p) ==
    /\ req[p].op = "resolve" /\ req[p].pc = "set"
    /\ Reply(p, req[p], INTERNAL_SERVER_ERROR, <<>>)
    /\ UNCHANGED <<store, cache, now, workers, dispatched, failed, keyRun>>

NextFault ==
    \/ Next
    \/ \E p \in Slots, key \in RouteKeys : ResolveGetError(p, key)
    \/ \E p \in Slots : ResolveSetError(p)

SpecFault == Init /\ [][NextFault]_vars

----------------------------------------------------------------------------
(* processKey on its own: every raw key up to MaxKeyLen over these code      *)
(* points: '/', '-', 'a', '!', U+00E9 and U+1F600                            *)

KeyAlphabet == {Slash, Dash, 97, 33, 233, 128512}

KeyInputs == UNION {[1..n -> KeyAlphabet] : n \in 0..MaxKeyLen}

InitKey ==
    /\ store = EmptyMap
    /\ cache = EmptyMap
    /\ now = 500
    /\ req = [p \in Slots |-> Idle]
    /\ resp = NoResponse
    /\ workers = EmptyMap
    /\ dispatched = [k \in RawKeys |-> 0]
    /\ failed = [k \in RawKeys |-> 0]
    /\ keyRun \in {[raw |-> k, out |-> <<>>] : k \in KeyInputs}

\* processKey applied to the raw key, then to each key it returned
ApplyProcessKey ==
    /\ Len(keyRun.out) < 2
    /\ IF keyRun.out = <<>>
       THEN keyRun' = [keyRun EXCEPT !.out = <<processKey(keyRun.raw)>>]
       ELSE /\ keyRun.out[Len(keyRun.out)].ok
            /\ keyRun' = [keyRun EXCEPT !.out =
                 Append(@, processKey(keyRun.out[Len(keyRun.out)].key))]
    /\ UNCHANGED <<store, cache, now, req, resp, workers, dispatched, failed>>

NextKey == ApplyProcessKey

SpecKey == InitKey /\ [][NextKey]_vars

----------------------------------------------------------------------------
(* Properties *)

\* click-update workers of key k that have not finished
Pending(k) ==
    Cardinality({x \in UNION {{<<w, i>> : i \in 1..workers[w]} : w \in DOMAIN workers} :
                    x[1].key = k})

Resolved == resp.op = "resolve"

\* C1: a resolve that enters after the archive of its key has completed (the
\* row has archived=true) answers Gone (410), in every interleaving.
C1_ArchivedResolvesGone ==
    (Resolved /\ resp.archivedAtStart) => resp.status = GONE

\* C2: a resolve of a link that is not archived and whose expiresAt is in the
\* past when the request enters answers Gone (410).
C2_ExpiredResolvesGone ==
    (Resolved /\ resp.expiredAtStart /\ ~ store[resp.key].archived.v)
        => resp.status = GONE

\* the same fields with the same values, a Date as the ISO string of its instant
SameContent(entry, row) ==
    /\ DOMAIN entry = DOMAIN row
    /\ \A f \in DOMAIN row :
          IF row[f].t = "Date"
          THEN entry[f].t = "isostring" /\ entry[f].v = row[f].v
          ELSE entry[f] = row[f]

\* C3: a resolve that missed the cache reads the row of the store, and its
\* write-back leaves the cache holding an entry for the key with the content
\* of the row it read, which a lookup of the key then returns.
C3_WriteBackHoldsRowRead ==
    [][\A p \in Slots :
          /\ (req[p].op = "resolve" /\ req[p].pc = "find" /\ req'[p].pc = "set")
                => req'[p].link = store[req[p].key]
          /\ (req[p].op = "resolve" /\ req[p].pc = "set" /\ req'[p].pc = "gate")
                => /\ req[p].key \in DOMAIN cache'
                   /\ \A s \in cache'[req[p].key].exat : now' <= s * 1000
                   /\ SameContent(JSONparse(cache'[req[p].key].val), req[p].link)
      ]_vars

C3_Witness ==
    \E p \in Slots :
        /\ req[p].op = "resolve" /\ req[p].pc = "gate"
        /\ Field(req[p].link, "expiresAt").t = "Date"
        /\ CacheHas(req[p].key)
        /\ SameContent(JSONparse(cache[req[p].key].val), req[p].link)

\* C4: every click-update worker started for a key adds exactly 1 to the
\* row's clicks when it completes without failure, however the workers
\* interleave: clicks = workers started - still running - failed, so with N
\* started, none running and none failed the counter is its initial 0 plus N.
C4_NoLostClick ==
    \A k \in DOMAIN store :
        store[k].clicks.v + Pending(k) + failed[k] = dispatched[k]

C4_Witness ==
    \E k \in DOMAIN store :
        /\ dispatched[k] >= 2
        /\ Pending(k) = 0 /\ failed[k] = 0
        /\ store[k].clicks.v = dispatched[k]

\* C5: a human resolve of a key whose row, made without expiry, was there
\* when the request entered and is not archived answers Redirect (302) to
\* the row's url, the one given at creation; and once the worker of the
\* first redirect has completed, clicks is 1.
C5_CreateThenRedirect ==
    /\ ( /\ Resolved /\ ~ resp.bot /\ resp.rowAtStart
         /\ ~ Truthy(store[resp.key].expiresAt)
         /\ ~ store[resp.key].archived.v )
          => /\ resp.status = FOUND
             /\ resp.body = <<store[resp.key].url.v>>
    /\ \A k \in DOMAIN store :
          (dispatched[k] = 1 /\ Pending(k) = 0 /\ failed[k] = 0)
             => store[k].clicks.v = 1

C5_Witness ==
    \E k \in DOMAIN store :
        /\ ~ Truthy(store[k].expiresAt)
        /\ dispatched[k] = 1 /\ Pending(k) = 0
        /\ store[k].clicks.v = 1
        /\ store[k].url.v \in Urls

\* C6, as claimed: once an archived key has been resolved (410), the cache
\* holds no entry for it.
C6_ArchivedKeyNotCached ==
    (Resolved /\ resp.archivedAtStart /\ resp.status = GONE)
        => ~ CacheHas(resp.key)

\* C6, amended: the archive's cache delete leaves no entry for the key; a
\* resolve that read the archived row writes it back, so that the cache then
\* holds an entry with archived=true, and answers Gone (410).
C6_ArchivedKeyCachedAsArchived ==
    [][\A p \in Slots :
          /\ (req[p].op = "archive" /\ req[p].pc = "del" /\ req'[p].pc = "update")
                => req[p].key \notin DOMAIN cache'
          /\ ( /\ req[p].op = "resolve" /\ req[p].pc = "set" /\ req'[p].pc = "gate"
               /\ LinkArchived(req[p].link) )
                => /\ req[p].key \in DOMAIN cache'
                   /\ cache'[req[p].key].exat = {}
                   /\ LinkArchived(JSONparse(cache'[req[p].key].val))
          /\ ( /\ req[p].op = "resolve" /\ req[p].pc = "gate" /\ req'[p].op = "idle"
               /\ LinkArchived(req[p].link) )
                => resp'.status = GONE
      ]_vars

C6_Witness ==
    /\ Resolved /\ resp.archivedAtStart /\ resp.status = GONE
    /\ CacheHas(resp.key)
    /\ LinkArchived(JSONparse(cache[resp.key].val))

\* C7: a creation with a reserved key answers Conflict (409) and goes no
\* further: no reserved key ever has a row or a cache entry.
C7_ReservedKeyConflict ==
    /\ (resp.op = "create" /\ resp.key \in reservedKeys) => resp.status = CONFLICT
    /\ \A p \in Slots : req[p].op = "create" => req[p].key \notin reservedKeys
    /\ \A k \in reservedKeys : k \notin DOMAIN store /\ k \notin DOMAIN cache

C7_Witness ==
    /\ resp.op = "create" /\ resp.key = KeyBlog /\ resp.status = CONFLICT
    /\ KeyBlog \notin DOMAIN store

\* C8: a resolve ends in one of the resolver's outcomes (NotFound, Gone,
\* BotPreview, Redirect; BadRequest for no key) also when a cache call fails.
C8_CacheErrorFallsBack ==
    Resolved => resp.status \in {BAD_REQUEST, NOT_FOUND, GONE, OK, FOUND}

\* C9: the step that answers Redirect starts the worker and leaves the store
\* as it is; the end of a worker, done or failed, changes no request and no
\* response, a failure changing nothing but the count of reported errors;
\* and a worker ends once: the key's increments and failures together never
\* exceed the redirects.
C9_RedirectApartFromUpdate ==
    [][/\ \A p \in Slots, k \in RawKeys :
            (req[p].op = "resolve" /\ req[p].pc = "gate" /\ req[p].key = k
             /\ req'[p].op = "idle" /\ resp'.status = FOUND)
               => /\ store' = store
                  /\ Pending(k)' = Pending(k) + 1
                  /\ resp'.body = <<TemplateString(Field(req[p].link, "url"))>>
       /\ (workers' # workers /\ dispatched' = dispatched)
               => /\ req' = req /\ resp' = NoResponse /\ cache' = cache
                  /\ \/ failed' = failed /\ store' # store
                     \/ failed' # failed /\ store' = store
       /\ \A k \in DOMAIN store' :
               store'[k].clicks.v + failed'[k] <= dispatched'[k]
      ]_vars

C9_Witness ==
    \E k \in DOMAIN store :
        dispatched[k] = 1 /\ failed[k] = 1 /\ store[k].clicks.v = 0

\* the key between the leading and the trailing slashes of raw: what is cut
\* off at either end is slashes only, and what is left neither starts nor
\* ends with one
IsStripped(out, raw) ==
    \E i \in 1..Len(raw), j \in 1..Len(raw) :
        /\ i <= j
        /\ out = SubSeq(raw, i, j)
        /\ \A m \in 1..Len(raw) : (m < i \/ m > j) => raw[m] = Slash
        /\ raw[i] # Slash /\ raw[j] # Slash

SaidAllowedChar(c) ==
    \/ c \in 48..57
    \/ c \in 65..90
    \/ c \in 97..122
    \/ c >= 128
    \/ c = Slash
    \/ c = Dash

\* C11: processKey returns invalid exactly when the raw key holds a character
\* outside 0-9, A-Z, a-z, the code points at or above U+0080, '/' and '-', or
\* is empty once its leading and trailing slashes are removed (it holds
\* nothing but slashes).
C11_InvalidIffDisallowedOrEmpty ==
    Len(keyRun.out) >= 1
        => ( ~ keyRun.out[1].ok
               <=> \/ \E i \in 1..Len(keyRun.raw) : ~ SaidAllowedChar(keyRun.raw[i])
                   \/ \A i \in 1..Len(keyRun.raw) : keyRun.raw[i] = Slash )

\* C12: every key of a row of the store and of an entry of the cache is
\* normalized: it neither starts nor ends with '/', and processKey returns it
\* as it is.
C12_StoredKeysNormalized ==
    \A k \in DOMAIN store \cup DOMAIN cache :
        /\ k # <<>>
        /\ k[1] # Slash /\ k[Len(k)] # Slash
        /\ processKey(k) = [ok |-> TRUE, key |-> k]

\* C13: of the creations for one key, run one after another or interleaved,
\* only the one that wrote the key's row answers Created (201) and at most
\* one is past that write; a creation answered when the key already had a
\* row it did not write answers Conflict (409); and the row, once written,
\* stays the one record of the key.
C13_OneCreatedOthersConflict ==
    [][\A k \in RawKeys :
          /\ ( /\ resp'.op = "create" /\ resp'.key = k
               /\ k \in DOMAIN store
               /\ ~ \E p \in Slots : /\ req[p].op = "create" /\ req[p].pc = "cache"
                                     /\ req[p].key = k /\ req'[p].op = "idle" )
                => resp'.status = CONFLICT
          /\ (resp'.op = "create" /\ resp'.key = k /\ resp'.status = CREATED)
                => k \in DOMAIN store'
          /\ Cardinality({p \in Slots : /\ req'[p].op = "create"
                                        /\ req'[p].pc = "cache"
                                        /\ req'[p].key = k}) <= 1
          /\ k \in DOMAIN store
                => k \in DOMAIN store' /\ store'[k].url = store[k].url
      ]_vars

\* C14: an archive that finds no row for its key answers NotFound (404), one
\* that finds the row archived answers Conflict (409), either one leaving the
\* store and the cache as they are; an archive goes on past that read only
\* for a row that is there and not archived, and only such an archive, at
\* its update, answers 200.
C14_ArchiveErrors ==
    [][/\ \A k \in RouteKeys :
            (resp'.op = "archive" /\ resp'.key = k /\ req' = req)
               => /\ store' = store /\ cache' = cache
                  /\ k \notin DOMAIN store => resp'.status = NOT_FOUND
                  /\ (k \in DOMAIN store /\ store[k].archived.v)
                        => resp'.status = CONFLICT
                  /\ resp'.status \in {NOT_FOUND, CONFLICT}
       /\ \A p \in Slots :
            (req[p].op = "idle" /\ req'[p].op = "archive")
               => /\ req'[p].key \in DOMAIN store
                  /\ ~ store[req'[p].key].archived.v
       /\ (resp'.op = "archive" /\ resp'.status = OK)
               => \E p \in Slots :
                     /\ req[p].op = "archive" /\ req[p].pc = "update"
                     /\ req'[p].op = "idle"
                     /\ store'[req[p].key].archived.v
      ]_vars

C14_Witness ==
    /\ resp.op = "archive" /\ resp.status = CONFLICT
    /\ resp.key \in DOMAIN store
    /\ store[resp.key].archived.v
    /\ CacheHas(resp.key)

\* what a tag of the preview is to show for a field of the record: the
\* field's string, or the default when the record has none
Shown(x, d) == IF x.t = "string" THEN x.v ELSE d

\* C15: the BotPreview of a bot resolve carries the title, description and
\* image of the key's record in og:title, og:description and og:image, and
\* "Link Preview", "Link Description" or "#" for each one the record lacks
\* (stored as null, or missing from the cached entry).
C15_BotPreviewDefaults ==
    (Resolved /\ resp.status = OK)
        => /\ resp.bot
           /\ resp.key \in DOMAIN store
           /\ resp.body = << Shown(store[resp.key].title, "Link Preview"),
                             Shown(store[resp.key].description, "Link Description"),
                             Shown(store[resp.key].image, "#") >>

\* C16: the cache step of a creation leaves an entry the cache already holds
\* for the key as it is; when the cache holds none it writes the entry, with
\* an expiry at the instant of expiresAt when the request gave one and with
\* no expiry otherwise.
C16_CreateOnlyCacheWrite ==
    [][\A p \in Slots, k \in RawKeys :
          ( /\ req[p].op = "create" /\ req[p].pc = "cache" /\ req[p].key = k
            /\ req'[p].op = "idle" )
             => IF CacheHas(k)
                THEN cache' = cache
                ELSE /\ k \in DOMAIN cache'
                     /\ JSONparse(cache'[k].val).url = Str(req[p].url)
                     /\ IF Truthy(req[p].expiresAt)
                        THEN /\ cache'[k].exat # {}
                             /\ \A s \in cache'[k].exat :
                                   s * 1000 = req[p].expiresAt.v
                        ELSE cache'[k].exat = {}
      ]_vars

\* C17: the steps of one resolve come in order.  The store is read only by a
\* request whose cache read missed; the cache is written back only by a
\* request that read the key's row, with that row; the checks come after
\* the cache hit or the write-back, expiry before archival; the response
\* follows the checks (NotFound follows the store read); and a worker is
\* started only by the step that answers Redirect, for a link that passed
\* both checks.
C17_ResolveStepsInOrder ==
    [][/\ \A p \in Slots :
          LET r == req[p]
              q == req'[p]
          IN  /\ (q.op = "resolve" /\ q.pc = "find" /\ r # q)
                    => r.op = "idle" /\ ~ CacheHas(q.key)
                       /\ cache' = cache /\ store' = store
              /\ (q.op = "resolve" /\ q.pc = "set" /\ r # q)
                    => r.op = "resolve" /\ r.pc = "find"
                       /\ r.key \in DOMAIN store /\ q.link = store[r.key]
                       /\ cache' = cache
              /\ (q.op = "resolve" /\ q.pc = "gate" /\ r # q)
                    => \/ r.op = "idle" /\ CacheHas(q.key) /\ cache' = cache
                       \/ r.op = "resolve" /\ r.pc = "set" /\ r.key \in DOMAIN cache'
                          /\ JSONparse(cache'[r.key].val) = JSONparse(JSONstringify(r.link))
              /\ (r.op = "resolve" /\ q.op = "idle")
                    => \/ r.pc = "find" /\ resp'.status = NOT_FOUND
                       \/ /\ r.pc = "gate"
                          /\ resp'.status \in {GONE, OK, FOUND}
                          /\ LinkExpired(r.link) => resp'.body = <<"Link expired">>
                          /\ (~ LinkExpired(r.link) /\ LinkArchived(r.link))
                                => resp'.body = <<"Link archived">>
                          /\ resp'.status \in {OK, FOUND}
                                => ~ LinkExpired(r.link) /\ ~ LinkArchived(r.link)
              /\ (r.op = "resolve" /\ q.op = "idle" /\ resp'.status # FOUND)
                    => dispatched' = dispatched /\ workers' = workers
       /\ dispatched' # dispatched
             => \E p \in Slots : /\ req[p].op = "resolve" /\ req[p].pc = "gate"
                                 /\ req'[p].op = "idle" /\ resp'.status = FOUND
      ]_vars

C17_Witness ==
    /\ Resolved /\ resp.status = GONE /\ resp.body = <<"Link expired">>
    /\ resp.expiredAtStart /\ resp.archivedAtStart
    /\ CacheHas(resp.key)
    /\ LinkArchived(JSONparse(cache[resp.key].val))
    /\ LinkExpired(JSONparse(cache[resp.key].val))

\* C18: no step lowers the clicks of a row, and the step in which a worker
\* completes its update raises the clicks of its key's row by exactly 1,
\* whatever clicks value the worker was started with.
C18_ClicksNeverDecrease ==
    [][/\ \A k \in DOMAIN store :
            k \in DOMAIN store' /\ store'[k].clicks.v >= store[k].clicks.v
       /\ \A w \in DOMAIN workers :
            ( /\ w \notin DOMAIN workers' \/ workers'[w] < workers[w]
              /\ failed' = failed )
               => /\ w.key \in DOMAIN store
                  /\ store'[w.key].clicks = Num(store[w.key].clicks.v + 1)
      ]_vars

C18_Witness ==
    \E k \in DOMAIN store :
        /\ store[k].clicks.v = 2
        /\ Pending(k) = 0 /\ failed[k] = 0
        /\ CacheHas(k)
        /\ Field(JSONparse(cache[k].val), "clicks") \in {Undefined, Num(0)}

\* C19: a row, once in the store, stays there with its key and its url, and
\* once archived stays archived, whatever step is taken.
C19_ArchivedForGood ==
    [][\A k \in DOMAIN store :
          /\ k \in DOMAIN store'
          /\ store'[k].key = store[k].key
          /\ store'[k].url = store[k].url
          /\ store[k].archived.v => store'[k].archived.v
      ]_vars

C19_Witness ==
    /\ resp.op = "create" /\ resp.status = CONFLICT
    /\ resp.key \in DOMAIN store
    /\ store[resp.key].archived.v
    /\ store[resp.key].clicks.v >= 1

\* C20: a resolve that answers anything but Redirect starts no worker and
\* leaves the store as it is; a worker is started only by the step that
\* answers Redirect, one for that response; so the clicks of a key never
\* exceed the Redirect responses given for it.
C20_OnlyRedirectDispatches ==
    [][/\ (resp'.op = "resolve" /\ resp'.status # FOUND)
             => /\ workers' = workers /\ dispatched' = dispatched
                /\ store' = store
       /\ \A k \in RawKeys :
             IF resp'.op = "resolve" /\ resp'.status = FOUND /\ resp'.key = k
             THEN dispatched'[k] = dispatched[k] + 1 /\ Pending(k)' = Pending(k) + 1
             ELSE dispatched'[k] = dispatched[k] /\ Pending(k)' <= Pending(k)
       /\ \A k \in DOMAIN store' : store'[k].clicks.v <= dispatched'[k]
      ]_vars

C20_Witness ==
    /\ Resolved /\ resp.status = OK /\ resp.bot
    /\ dispatched[resp.key] = 1
    /\ store[resp.key].clicks.v = 1

====
